---- MODULE Spec2Model ----
(***************************************************************************)
(* The interactive graph page of the sigma.js demo: a graphology Graph Store *)
(* seeded with 8 nodes and 8 edges, a force-layout worker writing node     *)
(* positions in the background, and the Interaction Controller's event     *)
(* handlers (downNode, mousemovebody, mouseup, mousedown, clickStage).     *)
(***************************************************************************)
EXTENDS Integers, Sequences, FiniteSets, TLC

VARIABLES
    nodes,        \* graph.nodes(): the node identifiers, in insertion order
    attrs,        \* node identifier -> its attributes (x, y, size, highlighted, fixed)
    edges,        \* the edges, in insertion order, each <<source, target>>
    draggedNode,  \* let draggedNode: string | null
    isDragging,   \* let isDragging
    customBBox,   \* the Renderer's custom bounding box: <<>> (unset) or <<bbox>>
    thrown,       \* whether a Graph Store call of a handler has thrown
    created,      \* how many identifiers uuid() has handed out
    lastMove,     \* the viewport point of the last pointer-move since the last node-press: <<>> or <<p>>
    dragWrite,    \* the last write of the pressed node's position since that press: <<>> or <<[x, y, by]>>
    ev            \* the last event dispatched and what its handler did

vars == <<nodes, attrs, edges, draggedNode, isDragging, customBBox, thrown,
          created, lastMove, dragWrite, ev>>

----
\* Bounds of the model.

\* stage clicks (node creations) in one run
MaxClicks == 1
\* nodes of an arbitrary Graph Store handed to the clickStage handler
MaxStoreNodes == 3

\* viewport points at which pointer events arrive
ScreenPoints == { [x |-> 101, y |-> 100], [x |-> 110, y |-> 90] }
\* graph points the Layout Worker writes
LayoutPoints == { [x |-> 0, y |-> 0] }
\* the nodes the pointer presses on
PressTargets == { "John", "Mary" }
\* the nodes whose position the Layout Worker writes: one the pointer presses
\* on and one it does not
LayoutTargets == { "John", "Suzan" }
\* node positions of an arbitrary Graph Store
StorePoints ==
    { [x |-> 0, y |-> 0], [x |-> 10, y |-> 0], [x |-> 0, y |-> 10], [x |-> 10, y |-> 10] }

----
\* The seed data.

NULL == "null"

SeedNodes ==
    << "John", "Mary", "Suzan", "Nantes", "New-York", "Sushis", "Falafels", "Kouign Amann" >>

SeedSize == << 15, 15, 15, 15, 15, 7, 7, 7 >>

\* the seed edges with one endpoint misspelt
SeedEdgesMisspelt ==
    << <<"John", "Mary">>, <<"Mary", "Suzan">>, <<"Mary", "Nantes">>,
       <<"John", "New-York">>, <<"Suzan", "New-York">>, <<"John", "Falafels">>,
       <<"Mary", "Sushis">>, <<"Suzan", "Kouign-Amann">> >>

SeedEdges ==
    << <<"John", "Mary">>, <<"Mary", "Suzan">>, <<"Mary", "Nantes">>,
       <<"John", "New-York">>, <<"Suzan", "New-York">>, <<"John", "Falafels">>,
       <<"Mary", "Sushis">>, <<"Suzan", "Kouign Amann">> >>

\* 100 * cos(i * 2 * PI / 8) and 100 * sin(i * 2 * PI / 8), i = 0..7, rounded
CircleX == << 100, 71, 0, -71, -100, -71, 0, 71 >>
CircleY == << 0, 71, 100, 71, 0, -71, -100, -71 >>

Range(s) == { s[i] : i \in 1..Len(s) }

IndexOf(s, e) == CHOOSE i \in 1..Len(s) : s[i] = e

SeedAttrs ==
    [ n \in Range(SeedNodes) |->
        [ x |-> CircleX[IndexOf(SeedNodes, n)],
          y |-> CircleY[IndexOf(SeedNodes, n)],
          size |-> SeedSize[IndexOf(SeedNodes, n)],
          highlighted |-> FALSE,
          fixed |-> FALSE ] ]

----
\* The Renderer (sigma) as far as the handlers use it.

Min(S) == CHOOSE m \in S : \A k \in S : m <= k
Max(S) == CHOOSE m \in S : \A k \in S : m >= k

\* renderer.getBBox(): the extent of the node positions
GetBBox(ns, as) ==
    IF ns = <<>>
    THEN [ x |-> <<0, 1>>, y |-> <<0, 1>> ]
    ELSE [ x |-> << Min({ as[n].x : n \in Range(ns) }), Max({ as[n].x : n \in Range(ns) }) >>,
           y |-> << Min({ as[n].y : n \in Range(ns) }), Max({ as[n].y : n \in Range(ns) }) >> ]

\* the viewport origin in graph space and the y axis pointing up
ViewOriginX == -100
ViewOriginY == 100

\* renderer.viewportToGraph(p)
ViewportToGraph(p) == [ x |-> ViewOriginX + p.x, y |-> ViewOriginY - p.y ]

----
\* The Graph Store (graphology) as far as the handlers use it.

\* graph.addNode(id, attributes) throws when the identifier is taken
AddNodeThrows(ns, id) == id \in Range(ns)

\* graph.addEdge(source, target) throws when an endpoint is missing or, the
\* graph not being a multigraph, when the edge already exists
AddEdgeThrows(ns, es, s, t) ==
    \/ s \notin Range(ns)
    \/ t \notin Range(ns)
    \/ <<s, t>> \in Range(es)

\* the edges added from the nearest node to the new one
RECURSIVE AddEdgesReversed(_, _, _, _)
AddEdgesReversed(ns, es, id, targets) ==
    IF targets = <<>>
    THEN [ edges |-> es, thrown |-> FALSE ]
    ELSE AddEdgesReversed(ns, Append(es, <<Head(targets), id>>), id, Tail(targets))

\* closestNodes.forEach((e) => graph.addEdge(id, e.nodeId)): the edges and
\* whether a call has thrown (the rest of the loop is then skipped)
RECURSIVE AddEdges(_, _, _, _)
AddEdges(ns, es, id, targets) ==
    IF targets = <<>>
    THEN [ edges |-> es, thrown |-> FALSE ]
    ELSE IF AddEdgeThrows(ns, es, id, Head(targets))
         THEN [ edges |-> es, thrown |-> TRUE ]
         ELSE AddEdges(ns, Append(es, <<id, Head(targets)>>), id, Tail(targets))

\* uuid(): an identifier no earlier call has returned
Uuid(k) == "uuid-" \o ToString(k)

----
\* The nearest-neighbour search of the clickStage handler.

\* Math.pow(node.x - attrs.x, 2) + Math.pow(node.y - attrs.y, 2)
Distance(p, a) == (p.x - a.x) * (p.x - a.x) + (p.y - a.y) * (p.y - a.y)

\* graph.nodes().map((nodeId) => ({ nodeId, distance }))
MapDistance(ns, as, p) ==
    [ i \in 1..Len(ns) |-> [ nodeId |-> ns[i], distance |-> Distance(p, as[ns[i]]) ] ]

\* the comparator with its operands exchanged
CompareDescending(a, b) == b.distance - a.distance

\* the comparator (a, b) => a.distance - b.distance
Compare(a, b) == a.distance - b.distance

\* one element put into a sorted array behind every element not greater than it
RECURSIVE Insert(_, _)
Insert(s, e) ==
    IF s = <<>> THEN <<e>>
    ELSE IF Compare(s[Len(s)], e) <= 0
         THEN Append(s, e)
         ELSE Append(Insert(SubSeq(s, 1, Len(s) - 1), e), s[Len(s)])

\* Array.prototype.sort with the comparator: a stable sort
RECURSIVE Sort(_)
Sort(s) ==
    IF s = <<>> THEN <<>>
    ELSE Insert(Sort(SubSeq(s, 1, Len(s) - 1)), s[Len(s)])

\* .slice(0, 1)
Slice1(s) == SubSeq(s, 1, IF Len(s) < 1 THEN Len(s) ELSE 1)

\* .slice(0, 2)
Slice2(s) == SubSeq(s, 1, IF Len(s) < 2 THEN Len(s) ELSE 2)

\* closestNodes
ClosestNodes(ns, as, p) == Slice2(Sort(MapDistance(ns, as, p)))

NodeIds(s) == [ i \in 1..Len(s) |-> s[i].nodeId ]

----
\* The events and their handlers.

NoEvent == [ type |-> "none", node |-> NULL, pos |-> <<>>, prevented |-> FALSE ]

Event(t, n, p, d) == [ type |-> t, node |-> n, pos |-> p, prevented |-> d ]

\* the handler without its setNodeAttribute call
DownNodeNoHighlight(n) ==
    /\ n \in PressTargets
    /\ isDragging' = TRUE
    /\ draggedNode' = n
    /\ lastMove' = <<>>
    /\ dragWrite' = <<>>
    /\ ev' = Event("downNode", n, <<>>, FALSE)
    /\ UNCHANGED <<nodes, attrs, edges, customBBox, thrown, created>>

\* renderer.on("downNode", ...)
DownNode(n) ==
    /\ n \in PressTargets
    /\ isDragging' = TRUE
    /\ draggedNode' = n
    /\ attrs' = [ attrs EXCEPT ![n].highlighted = TRUE ]
    /\ lastMove' = <<>>
    /\ dragWrite' = <<>>
    /\ ev' = Event("downNode", n, <<>>, FALSE)
    /\ UNCHANGED <<nodes, edges, customBBox, thrown, created>>

\* the raw viewport point taken for the position
DragPositionRaw(p) == p

\* const pos = renderer.viewportToGraph(e)
DragPosition(p) == ViewportToGraph(p)

\* the guard of the mousemovebody handler: if (!isDragging || !draggedNode) return
MoveIgnored == ~isDragging \/ draggedNode = NULL

\* the handler calling graph.replaceNodeAttributes with the position, which
\* drops the node's other attributes
MouseMoveBodyReplacesAttributes(p) ==
    /\ p \in ScreenPoints
    /\ IF MoveIgnored
       THEN /\ ev' = Event("mousemovebody", draggedNode, <<>>, FALSE)
            /\ UNCHANGED <<attrs, lastMove, dragWrite>>
       ELSE LET pos == DragPosition(p) IN
            /\ attrs' = [ attrs EXCEPT ![draggedNode].x = pos.x, ![draggedNode].y = pos.y,
                                       ![draggedNode].highlighted = FALSE ]
            /\ lastMove' = <<p>>
            /\ dragWrite' = << [ x |-> pos.x, y |-> pos.y, by |-> "drag" ] >>
            /\ ev' = Event("mousemovebody", draggedNode, <<>>, TRUE)
    /\ UNCHANGED <<nodes, edges, draggedNode, isDragging, customBBox, thrown, created>>

\* the handler with its three suppressing calls ahead of the guard
MouseMoveBodyPreventsFirst(p) ==
    /\ p \in ScreenPoints
    /\ IF MoveIgnored
       THEN /\ ev' = Event("mousemovebody", draggedNode, <<>>, TRUE)
            /\ UNCHANGED <<attrs, lastMove, dragWrite>>
       ELSE LET pos == DragPosition(p) IN
            /\ attrs' = [ attrs EXCEPT ![draggedNode].x = pos.x, ![draggedNode].y = pos.y ]
            /\ lastMove' = <<p>>
            /\ dragWrite' = << [ x |-> pos.x, y |-> pos.y, by |-> "drag" ] >>
            /\ ev' = Event("mousemovebody", draggedNode, <<>>, TRUE)
    /\ UNCHANGED <<nodes, edges, draggedNode, isDragging, customBBox, thrown, created>>

\* renderer.getMouseCaptor().on("mousemovebody", ...)
MouseMoveBody(p) ==
    /\ p \in ScreenPoints
    /\ IF MoveIgnored
       THEN /\ ev' = Event("mousemovebody", draggedNode, <<>>, FALSE)
            /\ UNCHANGED <<attrs, lastMove, dragWrite>>
       ELSE LET pos == DragPosition(p) IN
            /\ attrs' = [ attrs EXCEPT ![draggedNode].x = pos.x, ![draggedNode].y = pos.y ]
            /\ lastMove' = <<p>>
            /\ dragWrite' = << [ x |-> pos.x, y |-> pos.y, by |-> "drag" ] >>
            /\ ev' = Event("mousemovebody", draggedNode, <<>>, TRUE)
    /\ UNCHANGED <<nodes, edges, draggedNode, isDragging, customBBox, thrown, created>>

\* the handler without its two closing assignments
MouseUpKeepsDrag ==
    /\ attrs' = IF draggedNode # NULL
                THEN [ attrs EXCEPT ![draggedNode].highlighted = FALSE ]
                ELSE attrs
    /\ ev' = Event("mouseup", draggedNode, <<>>, FALSE)
    /\ UNCHANGED <<nodes, edges, draggedNode, isDragging, customBBox, thrown, created,
                   lastMove, dragWrite>>

\* the handler resetting the autoscale, as the comment above it says
MouseUpResetsAutoscale ==
    /\ attrs' = IF draggedNode # NULL
                THEN [ attrs EXCEPT ![draggedNode].highlighted = FALSE ]
                ELSE attrs
    /\ isDragging' = FALSE
    /\ draggedNode' = NULL
    /\ customBBox' = <<>>
    /\ ev' = Event("mouseup", draggedNode, <<>>, FALSE)
    /\ UNCHANGED <<nodes, edges, thrown, created, lastMove, dragWrite>>

\* the handler keeping draggedNode
MouseUpKeepsNode ==
    /\ attrs' = IF draggedNode # NULL
                THEN [ attrs EXCEPT ![draggedNode].highlighted = FALSE ]
                ELSE attrs
    /\ isDragging' = FALSE
    /\ ev' = Event("mouseup", draggedNode, <<>>, FALSE)
    /\ UNCHANGED <<nodes, edges, draggedNode, customBBox, thrown, created, lastMove,
                   dragWrite>>

\* the handler calling graph.dropNode in place of graph.removeNodeAttribute
MouseUpDropsNode ==
    /\ IF draggedNode # NULL
       THEN /\ nodes' = SelectSeq(nodes, LAMBDA n : n # draggedNode)
            /\ attrs' = [ n \in DOMAIN attrs \ { draggedNode } |-> attrs[n] ]
            /\ edges' = SelectSeq(edges, LAMBDA e : e[1] # draggedNode /\ e[2] # draggedNode)
       ELSE UNCHANGED <<nodes, attrs, edges>>
    /\ isDragging' = FALSE
    /\ draggedNode' = NULL
    /\ ev' = Event("mouseup", draggedNode, <<>>, FALSE)
    /\ UNCHANGED <<customBBox, thrown, created, lastMove, dragWrite>>

\* renderer.getMouseCaptor().on("mouseup", ...)
MouseUp ==
    /\ attrs' = IF draggedNode # NULL
                THEN [ attrs EXCEPT ![draggedNode].highlighted = FALSE ]
                ELSE attrs
    /\ isDragging' = FALSE
    /\ draggedNode' = NULL
    /\ ev' = Event("mouseup", draggedNode, <<>>, FALSE)
    /\ UNCHANGED <<nodes, edges, customBBox, thrown, created,
                   lastMove, dragWrite>>

\* the bounding box captured at every press
CaptureAlways == << GetBBox(nodes, attrs) >>

\* if (!renderer.getCustomBBox()) renderer.setCustomBBox(renderer.getBBox())
Capture == IF customBBox = <<>> THEN << GetBBox(nodes, attrs) >> ELSE customBBox

\* renderer.getMouseCaptor().on("mousedown", ...)
MouseDown ==
    /\ customBBox' = Capture
    /\ ev' = Event("mousedown", NULL, <<>>, FALSE)
    /\ UNCHANGED <<nodes, attrs, edges, draggedNode, isDragging, thrown, created,
                   lastMove, dragWrite>>

\* the handler registering the new node ahead of the search
ClickStageInsertsFirst(p) ==
    /\ p \in ScreenPoints
    /\ created < MaxClicks
    /\ LET coordForGraph == ViewportToGraph(p)
           node == [ x |-> coordForGraph.x, y |-> coordForGraph.y, size |-> 10,
                     highlighted |-> FALSE, fixed |-> FALSE ]
           id == Uuid(created + 1)
       IN  /\ created' = created + 1
           /\ ev' = Event("clickStage", id, <<>>, FALSE)
           /\ IF AddNodeThrows(nodes, id)
              THEN /\ thrown' = TRUE
                   /\ UNCHANGED <<nodes, attrs, edges>>
              ELSE LET closestNodes ==
                           ClosestNodes(Append(nodes, id), (id :> node) @@ attrs, node)
                       added == AddEdges(Append(nodes, id), edges, id, NodeIds(closestNodes))
                   IN  /\ nodes' = Append(nodes, id)
                       /\ attrs' = (id :> node) @@ attrs
                       /\ edges' = added.edges
                       /\ thrown' = (thrown \/ added.thrown)
    /\ UNCHANGED <<draggedNode, isDragging, customBBox, lastMove, dragWrite>>

\* renderer.on("clickStage", ...)
ClickStage(p) ==
    /\ p \in ScreenPoints
    /\ created < MaxClicks
    /\ LET coordForGraph == ViewportToGraph(p)
           node == [ x |-> coordForGraph.x, y |-> coordForGraph.y, size |-> 10,
                     highlighted |-> FALSE, fixed |-> FALSE ]
           closestNodes == ClosestNodes(nodes, attrs, node)
           id == Uuid(created + 1)
       IN  /\ created' = created + 1
           /\ ev' = Event("clickStage", id, <<>>, FALSE)
           /\ IF AddNodeThrows(nodes, id)
              THEN /\ thrown' = TRUE
                   /\ UNCHANGED <<nodes, attrs, edges>>
              ELSE LET added == AddEdges(Append(nodes, id), edges, id, NodeIds(closestNodes)) IN
                   /\ nodes' = Append(nodes, id)
                   /\ attrs' = (id :> node) @@ attrs
                   /\ edges' = added.edges
                   /\ thrown' = (thrown \/ added.thrown)
    /\ UNCHANGED <<draggedNode, isDragging, customBBox, lastMove, dragWrite>>

\* isNodeFixed: (_, attr) => attr.highlighted
IsNodeFixedHighlighted(n) == attrs[n].highlighted

\* whether the Layout Worker leaves a node where it is: the supervisor is
\* built without settings, so only a node's `fixed` attribute exempts it
IsNodeFixed(n) == attrs[n].fixed

\* layout.start(): the worker writes a node's position, at any time
LayoutStep(n, p) ==
    /\ n \in LayoutTargets
    /\ p \in LayoutPoints
    /\ IF IsNodeFixed(n)
       THEN UNCHANGED <<attrs, dragWrite>>
       ELSE /\ attrs' = [ attrs EXCEPT ![n].x = p.x, ![n].y = p.y ]
            /\ dragWrite' = IF n = draggedNode
                            THEN << [ x |-> p.x, y |-> p.y, by |-> "layout" ] >>
                            ELSE dragWrite
    /\ ev' = Event("layout", n, <<>>, FALSE)
    /\ UNCHANGED <<nodes, edges, draggedNode, isDragging, customBBox, thrown, created,
                   lastMove>>

\* the Renderer draws a frame from the Graph Store; the event records where
\* the frame shows the node under the pointer
Render ==
    /\ ev' = Event("render", draggedNode,
                   IF draggedNode # NULL
                   THEN << [ x |-> attrs[draggedNode].x, y |-> attrs[draggedNode].y ] >>
                   ELSE <<>>, FALSE)
    /\ UNCHANGED <<nodes, attrs, edges, draggedNode, isDragging, customBBox, thrown,
                   created, lastMove, dragWrite>>

----
\* The program: the seeded graph, then events in any order.

Init ==
    /\ nodes = SeedNodes
    /\ attrs = SeedAttrs
    /\ edges = SeedEdges
    /\ draggedNode = NULL
    /\ isDragging = FALSE
    /\ customBBox = <<>>
    /\ thrown = FALSE
    /\ created = 0
    /\ lastMove = <<>>
    /\ dragWrite = <<>>
    /\ ev = NoEvent

Next ==
    \/ \E n \in PressTargets : DownNode(n)
    \/ \E p \in ScreenPoints : MouseMoveBody(p)
    \/ MouseUp
    \/ MouseDown
    \/ \E p \in ScreenPoints : ClickStage(p)
    \/ \E n \in LayoutTargets, p \in LayoutPoints : LayoutStep(n, p)
    \/ Render

Spec == Init /\ [][Next]_vars

----
\* The clickStage handler on an arbitrary Graph Store: up to MaxStoreNodes
\* nodes, anywhere on StorePoints, and no edge.

InitStore ==
    /\ \E k \in 0..MaxStoreNodes :
          /\ nodes = SubSeq(SeedNodes, 1, k)
          /\ attrs \in [ Range(SubSeq(SeedNodes, 1, k)) ->
                          { [ x |-> q.x, y |-> q.y, size |-> 15, highlighted |-> FALSE,
                              fixed |-> FALSE ] : q \in StorePoints } ]
    /\ edges = <<>>
    /\ draggedNode = NULL
    /\ isDragging = FALSE
    /\ customBBox = <<>>
    /\ thrown = FALSE
    /\ created = 0
    /\ lastMove = <<>>
    /\ dragWrite = <<>>
    /\ ev = NoEvent

NextStore == \E p \in ScreenPoints : ClickStage(p)

SpecStore == InitStore /\ [][NextStore]_vars

----
\* The properties.

Highlighted == { n \in Range(nodes) : attrs[n].highlighted }

Position(as, n) == [ x |-> as[n].x, y |-> as[n].y ]

\* the edges a step has appended
NewEdges == { edges'[i] : i \in (Len(edges) + 1)..Len(edges') }

\* a step that adds or removes no node and no edge
SameGraph == nodes' = nodes /\ edges' = edges

\* the state just after a pointer-release that ended a press, moves, release
\* sequence on node ev.node; lastMove holds the last pointer-move of the
\* sequence, if it had one
Released == ev.type = "mouseup" /\ ev.node # NULL

\* C1 as stated: after node-press(N), pointer-moves, pointer-release, N
\* carries no `highlighted` and is at the graph coordinate converted from the
\* last pointer-move, whatever the Layout Worker has written meanwhile.
C1_ReleasedAtLastMove ==
    Released =>
        /\ ~attrs[ev.node].highlighted
        /\ lastMove # <<>> => Position(attrs, ev.node) = ViewportToGraph(lastMove[1])

\* C1 amended: after node-press(N), pointer-moves, pointer-release, N carries
\* no `highlighted` and is at the position last written to it since the press:
\* the graph coordinate converted from the last pointer-move, unless the Layout
\* Worker has written N's position after that move, and then the Layout
\* Worker's last write.
C1_ReleasedAtLastWrite ==
    Released =>
        /\ ~attrs[ev.node].highlighted
        /\ lastMove # <<>> =>
               /\ dragWrite # <<>>
               /\ Position(attrs, ev.node) = [ x |-> dragWrite[1].x, y |-> dragWrite[1].y ]
               /\ dragWrite[1].by = "drag" =>
                      Position(attrs, ev.node) = ViewportToGraph(lastMove[1])
               /\ dragWrite[1].by = "layout" => Position(attrs, ev.node) \in LayoutPoints

\* a release after a move that the Layout Worker has overwritten
C1_Witness ==
    /\ Released
    /\ lastMove # <<>>
    /\ dragWrite # <<>>
    /\ dragWrite[1].by = "layout"
    /\ Position(attrs, ev.node) # ViewportToGraph(lastMove[1])

\* C2: at most one node carries `highlighted`; during a drag it is the dragged
\* node, and with no drag active no node carries it.
C2_OneHighlighted ==
    /\ Cardinality(Highlighted) <= 1
    /\ draggedNode # NULL => Highlighted = { draggedNode }
    /\ draggedNode = NULL => Highlighted = {}

\* C3: a pointer-move received while isDragging is false or no node is
\* dragged, in particular right after a pointer-release, changes no attribute
\* of any node (and no node or edge).
C3_MoveOutsideDragIsNoOp ==
    [][ ( /\ ev'.type = "mousemovebody"
          /\ (~isDragging \/ draggedNode = NULL \/ ev.type = "mouseup") )
        => (attrs' = attrs /\ SameGraph) ]_vars

\* a pointer-move ignored after a drag that had moved a node
C3_Witness ==
    /\ ev.type = "mousemovebody"
    /\ ~ev.prevented
    /\ ~isDragging
    /\ lastMove # <<>>

\* C4: a stage-click on a Graph Store of at least 2 nodes adds exactly 1 node
\* and exactly 2 edges, both with the new node as an endpoint.
C4_ClickAddsNodeAndTwoEdges ==
    [][ (ev'.type = "clickStage" /\ Len(nodes) >= 2)
        => /\ ev'.node \notin Range(nodes)
           /\ nodes' = Append(nodes, ev'.node)
           /\ Len(edges') = Len(edges) + 2
           /\ SubSeq(edges', 1, Len(edges)) = edges
           /\ Cardinality(NewEdges) = 2
           /\ \A e \in NewEdges : ev'.node \in { e[1], e[2] } ]_vars

\* a stage-click has added a ninth node and two edges to the seeded graph
C4_Witness ==
    /\ ev.type = "clickStage"
    /\ Len(nodes) = Len(SeedNodes) + 1
    /\ Len(edges) = Len(SeedEdges) + 2

\* C5: a stage-click on a Graph Store of fewer than 2 nodes adds exactly 1
\* node and throws nothing; with 1 node it adds the one edge from the new node
\* to that node, with 0 nodes it adds no edge.
C5_ClickOnSmallStore ==
    [][ (ev'.type = "clickStage" /\ Len(nodes) < 2)
        => /\ ev'.node \notin Range(nodes)
           /\ nodes' = Append(nodes, ev'.node)
           /\ ~thrown'
           /\ edges' = IF Len(nodes) = 1
                       THEN Append(edges, << ev'.node, nodes[1] >>)
                       ELSE edges ]_vars

\* a stage-click on a store of one node has added the second node and one edge
C5_Witness ==
    /\ ev.type = "clickStage"
    /\ Len(nodes) = 2
    /\ edges = << << nodes[2], nodes[1] >> >>
    /\ ~thrown

\* C6: the nodes a stage-click connects the new node to are the 2 nodes (all
\* of them, when fewer) nearest to the converted click point by squared
\* distance: no node left out is nearer than a selected one.
C6_ClickSelectsNearest ==
    [][ ev'.type = "clickStage"
        => LET id == ev'.node
               selected == { e[2] : e \in NewEdges }
           IN  /\ selected \subseteq Range(nodes)
               /\ Cardinality(selected) = IF Len(nodes) < 2 THEN Len(nodes) ELSE 2
               /\ \A u \in Range(nodes) \ selected : \A v \in selected :
                      Distance(attrs'[id], attrs[u]) >= Distance(attrs'[id], attrs[v]) ]_vars

\* nodes at (0,0), (10,0), (0,10) and a click converted to (1,0): the new node
\* is connected to the nodes at (0,0) and (10,0)
C6_Witness ==
    /\ ev.type = "clickStage"
    /\ Len(nodes) = 4
    /\ Position(attrs, nodes[1]) = [ x |-> 0, y |-> 0 ]
    /\ Position(attrs, nodes[2]) = [ x |-> 10, y |-> 0 ]
    /\ Position(attrs, nodes[3]) = [ x |-> 0, y |-> 10 ]
    /\ Position(attrs, nodes[4]) = [ x |-> 1, y |-> 0 ]
    /\ edges = << << nodes[4], nodes[1] >>, << nodes[4], nodes[2] >> >>

C8_EdgesJoinNodes ==
    \A i \in 1..Len(edges) : edges[i][1] \in Range(nodes) /\ edges[i][2] \in Range(nodes)

\* a created node and its edges, after a Layout Worker write
C8_Witness ==
    /\ Len(nodes) > Len(SeedNodes)
    /\ Len(edges) > Len(SeedEdges)
    /\ Position(attrs, "John") \in LayoutPoints

\* C9: the position of the dragged node is a last-write-wins register: a
\* Layout Worker write lands on the dragged, highlighted node, a pointer-move
\* write lands over a Layout Worker write, and the frame drawn next shows the
\* position written last.
C9_LastWriteWins ==
    /\ (ev.type = "layout" /\ ev.node = draggedNode)
           => /\ dragWrite # <<>>
              /\ dragWrite[1].by = "layout"
              /\ Position(attrs, draggedNode) \in LayoutPoints
    /\ (ev.type = "mousemovebody" /\ ev.prevented)
           => /\ dragWrite # <<>>
              /\ dragWrite[1].by = "drag"
              /\ Position(attrs, draggedNode) = ViewportToGraph(lastMove[1])
    /\ (ev.type = "render" /\ ev.node # NULL /\ dragWrite # <<>>)
           => ev.pos = << [ x |-> dragWrite[1].x, y |-> dragWrite[1].y ] >>

\* a frame drawn after a pointer-move and then a Layout Worker write of the
\* dragged, highlighted node
C9_Witness ==
    /\ ev.type = "render"
    /\ ev.node # NULL
    /\ attrs[ev.node].highlighted
    /\ lastMove # <<>>
    /\ dragWrite # <<>>
    /\ dragWrite[1].by = "layout"
    /\ ev.pos[1] \in LayoutPoints

\* C10: a node-press on N leaves isDragging true, draggedNode = N and N
\* highlighted; it moves no node and adds or removes no node or edge.
C10_PressStartsDrag ==
    [][ ev'.type = "downNode"
        => /\ isDragging'
           /\ draggedNode' = ev'.node
           /\ attrs'[ev'.node].highlighted
           /\ \A n \in Range(nodes) : Position(attrs', n) = Position(attrs, n)
           /\ SameGraph ]_vars

\* a node-press after an earlier drag has moved a node
C10_Witness ==
    /\ ev.type = "downNode"
    /\ isDragging
    /\ draggedNode = ev.node
    /\ attrs[draggedNode].highlighted
    /\ lastMove = <<>>
    /\ Position(attrs, "John") # Position(SeedAttrs, "John")

C12_SuppressedOnlyWhileDragging ==
    [][ /\ ev'.type = "mousemovebody"
            => (ev'.prevented <=> (isDragging /\ draggedNode # NULL))
        /\ ev'.type # "mousemovebody" => ~ev'.prevented ]_vars

\* a suppressed pointer-move of a second drag, the first drag having ended
C12_Witness ==
    /\ ev.type = "mousemovebody"
    /\ ev.prevented
    /\ ev.node = "Mary"
    /\ Highlighted = { "Mary" }
    /\ Position(attrs, "John") = ViewportToGraph([ x |-> 110, y |-> 90 ])

\* C13: no step removes a node or an edge, so the graph always holds the 8
\* seed nodes and the 8 seed edges, and every stage-click finds at least 2
\* nodes and adds exactly 2 edges.
C13_GraphOnlyGrows ==
    /\ [][ /\ Range(nodes) \subseteq Range(nodes')
           /\ Range(edges) \subseteq Range(edges')
           /\ Len(nodes) <= Len(nodes')
           /\ Len(edges) <= Len(edges')
           /\ ev'.type = "clickStage"
                  => (Len(nodes) >= 2 /\ Len(edges') = Len(edges) + 2) ]_vars
    /\ [] /\ Cardinality(Range(nodes)) >= 8
          /\ Cardinality(Range(edges)) >= 8
          /\ Range(SeedNodes) \subseteq Range(nodes)
          /\ Range(SeedEdges) \subseteq Range(edges)

\* a stage-click made after a drag has ended: the graph holds the seeds, one
\* created node and its two edges
C13_Witness ==
    /\ ev.type = "clickStage"
    /\ lastMove # <<>>
    /\ ~isDragging
    /\ Cardinality(Range(nodes)) = 9
    /\ Cardinality(Range(edges)) = 10

\* C14: isDragging is true exactly when draggedNode is set.
C14_DraggingIffNode == isDragging <=> (draggedNode # NULL)

\* a drag in progress after a release, a pointer-press and a stage-click
C14_Witness ==
    /\ isDragging
    /\ draggedNode = "Mary"
    /\ "John" \notin Highlighted
    /\ Position(attrs, "John") # Position(SeedAttrs, "John")
    /\ customBBox # <<>>
    /\ created > 0

\* C15: a stage-click searches the nearest nodes before it registers the new
\* node: every edge it adds goes from the new node to a node that was there
\* before, never to the new node itself, and no two of them go to the same node.
C15_ClickAddsNoSelfLoop ==
    [][ ev'.type = "clickStage"
        => /\ \A e \in NewEdges :
                  /\ e[1] = ev'.node
                  /\ e[2] # ev'.node
                  /\ e[2] \in Range(nodes)
           /\ Cardinality({ e[2] : e \in NewEdges }) = Len(edges') - Len(edges) ]_vars

\* a stage-click on the very point a node has been dragged to: the new node is
\* joined to that node, at distance 0, and to one other
C15_Witness ==
    /\ ev.type = "clickStage"
    /\ \E n \in Range(SeedNodes) :
           /\ Position(attrs, n) = Position(attrs, ev.node)
           /\ << ev.node, n >> \in Range(edges)
    /\ Cardinality({ e \in Range(edges) : e[1] = ev.node }) = 2

\* C16: a pointer-move received while a node is dragged changes the x and y of
\* that node and nothing else: no other node, no other attribute of the dragged
\* node, no node or edge, not the custom bounding box, not the drag state.
C16_MoveWritesOnlyPosition ==
    [][ (ev'.type = "mousemovebody" /\ isDragging /\ draggedNode # NULL)
        => /\ \A n \in Range(nodes) \ { draggedNode } : attrs'[n] = attrs[n]
           /\ attrs'[draggedNode] =
                  [ attrs[draggedNode] EXCEPT !.x = attrs'[draggedNode].x,
                                              !.y = attrs'[draggedNode].y ]
           /\ DOMAIN attrs' = DOMAIN attrs
           /\ SameGraph
           /\ customBBox' = customBBox
           /\ isDragging' = isDragging
           /\ draggedNode' = draggedNode ]_vars

\* a pointer-move of a drag begun after a pointer-press and a stage-click: the
\* dragged node is at the converted point and still highlighted
C16_Witness ==
    /\ ev.type = "mousemovebody"
    /\ ev.prevented
    /\ isDragging
    /\ attrs[draggedNode].highlighted
    /\ Position(attrs, draggedNode) = ViewportToGraph(lastMove[1])
    /\ Position(attrs, draggedNode) # Position(SeedAttrs, draggedNode)
    /\ customBBox # <<>>
    /\ created > 0

====
